---- MODULE Spec2Model ----
(***************************************************************************)
(* SearchPage of the job-search frontend: the component state (jobTitle,   *)
(* jobs, searching), the async handler handleSearch with its two awaited   *)
(* axios calls, and the render function.                                   *)
(*                                                                         *)
(* handleSearch is async: everything up to the first await runs in the     *)
(* event handler's turn, and each await resumes in a later turn of the     *)
(* event loop.  One action models one such turn.  Every effect a turn has  *)
(* on the outside (a toast, a request handed to axios, a console line) and *)
(* every state setter it calls is appended, in program order, to the log   *)
(* of the invocation that made it.                                         *)
(***************************************************************************)
EXTENDS Integers, Sequences, FiniteSets

\* ---- bounds ----
MaxSubmits == 3       \* handleSearch invocations in one behaviour

\* what the text field can hold: empty, whitespace only, a title, a padded title
Titles == {<<>>, <<" ", " ">>, <<"a">>, <<" ", "a", " ">>}
\* the postings the backend can return (job.id)
Postings == {"p1", "p2"}

NoDup(s) == \A i, j \in 1..Len(s) : i # j => s[i] # s[j]
\* GET /jobs answers with an ordered list of postings, ids unique in the list
Responses == {s \in UNION {[1..n -> Postings] : n \in 0..Cardinality(Postings)} : NoDup(s)}

VARIABLES
    jobTitle,     \* useState("")    : the text field
    jobs,         \* useState([])    : the result set
    searching,    \* useState(false) : the in-flight flag
    calls         \* the invocations of handleSearch, in order of invocation:
                  \* where each stands (pc) and what it has done so far (log)

vars == <<jobTitle, jobs, searching, calls>>

\* ---- String.prototype.trim on the text field ----
RECURSIVE TrimStart(_)
TrimStart(s) == IF s # <<>> /\ Head(s) = " " THEN TrimStart(Tail(s)) ELSE s

RECURSIVE TrimEnd(_)
TrimEnd(s) ==
    IF s # <<>> /\ s[Len(s)] = " " THEN TrimEnd(SubSeq(s, 1, Len(s) - 1)) ELSE s

TrimIdentity(s) == s

Trim(s) == TrimEnd(TrimStart(s))

\* ---- the notices ----
ValidationToast == [kind |-> "error", text |-> <<"Please enter a job title">>]
InfoToast == [kind |-> "info", text |-> <<"Searching job portals...">>]
FailureToast == [kind |-> "error", text |-> <<"Failed to search jobs">>]

SuccessToastStale(data) == [kind |-> "success", text |-> <<"Found ", Len(jobs), " jobs!">>]

SuccessToast(data) == [kind |-> "success", text |-> <<"Found ", Len(data), " jobs!">>]

Ev(type, arg) == [type |-> type, arg |-> arg]

\* the request body { job_title: jobTitle } is never read back by the page
PostRequest == [method |-> "POST", path |-> "/jobs/search"]
GetRequest == [method |-> "GET", path |-> "/jobs"]

Init ==
    /\ jobTitle = <<>>
    /\ jobs = <<>>
    /\ searching = FALSE
    /\ calls = <<>>

\* onChange={(e) => setJobTitle(e.target.value)}
SetJobTitle(t) ==
    /\ t # jobTitle
    /\ jobTitle' = t
    /\ UNCHANGED <<jobs, searching, calls>>

\* ---- render: a pure function of the state ----
\* <Button disabled={searching}>
SubmitDisabled == searching

\* {searching ? "Searching..." : "Search Jobs"}
ButtonLabel == IF searching THEN "Searching..." ELSE "Search Jobs"

Card(job) == [key |-> job]

ResultsPanelAlwaysHeading(js) ==
    [heading |-> <<Len(js), " Jobs Found">>,
     cards |-> [i \in 1..Len(js) |-> Card(js[i])],
     placeholder |-> FALSE]

\* {jobs.length > 0 ? (heading, jobs.map(card)) : (placeholder)}
ResultsPanel(js) ==
    IF Len(js) > 0
    THEN [heading |-> <<Len(js), " Jobs Found">>,
          cards |-> [i \in 1..Len(js) |-> Card(js[i])],
          placeholder |-> FALSE]
    ELSE [heading |-> <<>>, cards |-> <<>>, placeholder |-> TRUE]

Render == [disabled |-> SubmitDisabled, label |-> ButtonLabel, results |-> ResultsPanel(jobs)]

\* ---- handleSearch ----
Call(pc, log) == [pc |-> pc, log |-> log]

Continue(c, pc, more) == [calls EXCEPT ![c].pc = pc, ![c].log = @ \o more]

RejectedNoReturn ==
    /\ Trim(jobTitle) = <<>>
    /\ searching' = TRUE
    /\ calls' = Append(calls, Call("awaitPost",
                                   <<Ev("toast", ValidationToast),
                                     Ev("setSearching", TRUE),
                                     Ev("toast", InfoToast),
                                     Ev("request", PostRequest)>>))
    /\ UNCHANGED <<jobTitle, jobs>>

\* if (!jobTitle.trim()) { toast.error(...); return; }
Rejected ==
    /\ Trim(jobTitle) = <<>>
    /\ calls' = Append(calls, Call("rejected", <<Ev("toast", ValidationToast)>>))
    /\ UNCHANGED <<jobTitle, jobs, searching>>

StartedRequestFirst ==
    /\ Trim(jobTitle) # <<>>
    /\ searching' = TRUE
    /\ calls' = Append(calls, Call("awaitPost",
                                   <<Ev("request", PostRequest),
                                     Ev("setSearching", TRUE),
                                     Ev("toast", InfoToast)>>))
    /\ UNCHANGED <<jobTitle, jobs>>

\* setSearching(true); try { toast.info(...); await axios.post(...)
Started ==
    /\ Trim(jobTitle) # <<>>
    /\ searching' = TRUE
    /\ calls' = Append(calls, Call("awaitPost",
                                   <<Ev("setSearching", TRUE),
                                     Ev("toast", InfoToast),
                                     Ev("request", PostRequest)>>))
    /\ UNCHANGED <<jobTitle, jobs>>

HandleSearch ==
    /\ Len(calls) < MaxSubmits
    /\ \/ Rejected
       \/ Started

\* <Button onClick={handleSearch} disabled={searching}>
ClickSearch ==
    /\ ~SubmitDisabled
    /\ HandleSearch

\* onKeyPress={(e) => e.key === 'Enter' && handleSearch()}
PressEnter == HandleSearch

CatchFinallyClearing(c, method) ==
    /\ calls' = Continue(c, "failed",
                         <<Ev("response", [method |-> method, ok |-> FALSE, data |-> <<>>]),
                           Ev("console.error", <<"Error searching:">>),
                           Ev("setJobs", <<>>),
                           Ev("toast", FailureToast),
                           Ev("setSearching", FALSE)>>)
    /\ searching' = FALSE
    /\ jobs' = <<>>
    /\ UNCHANGED jobTitle

CatchNoFinally(c, method) ==
    /\ calls' = Continue(c, "failed",
                         <<Ev("response", [method |-> method, ok |-> FALSE, data |-> <<>>]),
                           Ev("console.error", <<"Error searching:">>),
                           Ev("toast", FailureToast)>>)
    /\ UNCHANGED <<jobTitle, jobs, searching>>

\* catch (error) { console.error(...); toast.error(...) } finally { setSearching(false) }
CatchFinally(c, method) ==
    /\ calls' = Continue(c, "failed",
                         <<Ev("response", [method |-> method, ok |-> FALSE, data |-> <<>>]),
                           Ev("console.error", <<"Error searching:">>),
                           Ev("toast", FailureToast),
                           Ev("setSearching", FALSE)>>)
    /\ searching' = FALSE
    /\ UNCHANGED <<jobTitle, jobs>>

\* the POST resolves: const response = await axios.get(`${API}/jobs`)
PostSucceeded(c) ==
    /\ calls[c].pc = "awaitPost"
    /\ calls' = Continue(c, "awaitGet",
                         <<Ev("response", [method |-> "POST", ok |-> TRUE, data |-> <<>>]),
                           Ev("request", GetRequest)>>)
    /\ UNCHANGED <<jobTitle, jobs, searching>>

\* the POST rejects
PostFailed(c) ==
    /\ calls[c].pc = "awaitPost"
    /\ CatchFinally(c, "POST")

SetJobsMerging(data) == jobs \o data

\* setJobs(response.data)
SetJobs(data) == data

\* the GET resolves: setJobs(response.data); toast.success(...); finally
GetSucceeded(c, data) ==
    /\ calls[c].pc = "awaitGet"
    /\ jobs' = SetJobs(data)
    /\ calls' = Continue(c, "succeeded",
                         <<Ev("response", [method |-> "GET", ok |-> TRUE, data |-> data]),
                           Ev("setJobs", SetJobs(data)),
                           Ev("toast", SuccessToast(data)),
                           Ev("setSearching", FALSE)>>)
    /\ searching' = FALSE
    /\ UNCHANGED jobTitle

\* the GET rejects
GetFailed(c) ==
    /\ calls[c].pc = "awaitGet"
    /\ CatchFinally(c, "GET")

\* one turn of the event loop that answers a request of invocation c
Resolve(c) ==
    /\ c <= Len(calls)
    /\ \/ PostSucceeded(c)
       \/ PostFailed(c)
       \/ \E data \in Responses : GetSucceeded(c, data)
       \/ GetFailed(c)

Next ==
    \/ \E t \in Titles : SetJobTitle(t)
    \/ ClickSearch
    \/ PressEnter
    \/ \E c \in 1..Len(calls) : PostSucceeded(c)
    \/ \E c \in 1..Len(calls) : PostFailed(c)
    \/ \E c \in 1..Len(calls), data \in Responses : GetSucceeded(c, data)
    \/ \E c \in 1..Len(calls) : GetFailed(c)

Spec == Init /\ [][Next]_vars

\* every request handed to axios is answered or fails
FairSpec == Spec /\ \A c \in 1..MaxSubmits : WF_vars(Resolve(c))

\* ======================= properties =======================

Calls == 1..Len(calls)
Pending(c) == calls[c].pc \in {"awaitPost", "awaitGet"}
Resolved(c) == calls[c].pc \in {"succeeded", "failed"}

IsToast(e) == e.type = "toast"
IsRequest(e) == e.type = "request"
ToastsOf(log) == SelectSeq(log, IsToast)
RequestsOf(log) == SelectSeq(log, IsRequest)
Has(log, type) == \E i \in 1..Len(log) : log[i].type = type
IsResponse(e, method, ok) == e.type = "response" /\ e.arg.method = method /\ e.arg.ok = ok
\* the list the GET of this log answered with
Fetched(log) == (CHOOSE i \in 1..Len(log) : IsResponse(log[i], "GET", TRUE))
FetchedData(log) == log[Fetched(log)].arg.data

\* empty or whitespace-only, stated without trim
IsBlank(s) == \A i \in 1..Len(s) : s[i] = " "

OnlyValidation(log) == Len(log) = 1 /\ IsToast(log[1]) /\ log[1].arg = ValidationToast

\* a turn in which handleSearch is invoked
Submitted == Len(calls') = Len(calls) + 1

\* C1: a submit with an empty or whitespace-only query, by click or by Enter and
\* whatever the page is doing, only shows "Please enter a job title": it hands no
\* request to axios, then or later, and leaves jobs and searching as they were.
C1_BlankQueryRejected ==
    [][/\ (Submitted /\ IsBlank(jobTitle)) =>
            /\ OnlyValidation(calls'[Len(calls')].log)
            /\ calls'[Len(calls')].pc = "rejected"
            /\ jobs' = jobs
            /\ searching' = searching
       /\ \A c \in Calls : calls[c].pc = "rejected" =>
            /\ calls'[c] = calls[c]
            /\ RequestsOf(calls[c].log) = <<>>]_vars

\* a whitespace-only query was rejected by Enter while another search was in flight
C1_Witness ==
    /\ Len(calls) >= 2
    /\ calls[Len(calls)].pc = "rejected"
    /\ jobTitle = <<" ", " ">>
    /\ searching
    /\ \E c \in Calls : Pending(c)

\* C2: when the GET of a search answers with N postings (N >= 0), the success
\* notice of that search reads "Found N jobs!" and the page then renders N cards.
C2_SuccessCountsN ==
    [][\A c \in Calls : (calls[c].pc = "awaitGet" /\ calls'[c].pc = "succeeded") =>
            LET log == calls'[c].log
                n == Len(FetchedData(log))
            IN /\ ToastsOf(log)[2] = Ev("toast", [kind |-> "success",
                                                  text |-> <<"Found ", n, " jobs!">>])
               /\ Len(ResultsPanel(jobs').cards) = n]_vars

\* a search found two postings while the page showed one
C2_Witness ==
    \E c, d \in Calls :
        /\ c < d
        /\ calls[c].pc = "succeeded" /\ Len(FetchedData(calls[c].log)) = 1
        /\ calls[d].pc = "succeeded" /\ Len(FetchedData(calls[d].log)) = 2
        /\ Len(ResultsPanel(jobs).cards) = 2

C4_SearchingIffUnresolved ==
    /\ searching <=> \E c \in Calls : Pending(c)
    /\ SubmitDisabled <=> searching

\* C5: at most one search sequence, hence at most one request, is in flight.
C5_OneSequenceInFlight == Cardinality({c \in Calls : Pending(c)}) <= 1

\* C6: when the requests of every search are answered, a page with a search in
\* flight comes back to idle: no search unresolved, searching false, the submit
\* button enabled, whether the searches succeeded or failed.
C6_ReturnsToIdle ==
    (\E c \in Calls : Pending(c)) ~>
        ((\A c \in Calls : Resolved(c) \/ calls[c].pc = "rejected")
            /\ ~searching /\ ~SubmitDisabled)

\* a search failed and the page is idle again
C6_Witness ==
    /\ \E c \in Calls : calls[c].pc = "failed"
    /\ \A c \in Calls : ~Pending(c)
    /\ ~searching /\ ~SubmitDisabled

\* C7: the turn in which a search succeeds makes the result set the list its GET
\* answered with, in that order; nothing of the previous result set is kept.
C7_JobsReplaced ==
    [][\A c \in Calls : (calls[c].pc = "awaitGet" /\ calls'[c].pc = "succeeded") =>
            jobs' = FetchedData(calls'[c].log)]_vars

\* two postings were shown, and a later search replaced them by the same two in the other order
C7_Witness ==
    \E c, d \in Calls :
        /\ c # d
        /\ calls[c].pc = "succeeded" /\ FetchedData(calls[c].log) = <<"p1", "p2">>
        /\ calls[d].pc = "succeeded" /\ FetchedData(calls[d].log) = <<"p2", "p1">>
        /\ jobs = <<"p2", "p1">>

\* what the results area shows before any search
PlaceholderPanel == [heading |-> <<>>, cards |-> <<>>, placeholder |-> TRUE]

\* C8: the heading and the cards are rendered exactly when the result set is
\* non-empty, one card per posting; with an empty result set the placeholder is
\* rendered, the same before any search and after a search that found nothing.
C8_PlaceholderIffEmpty ==
    LET r == Render.results IN
    /\ (r.heading # <<>>) <=> (Len(jobs) > 0)
    /\ (~r.placeholder) <=> (Len(jobs) > 0)
    /\ Len(jobs) > 0 =>
        /\ r.heading = <<Len(jobs), " Jobs Found">>
        /\ r.cards = [i \in 1..Len(jobs) |-> Card(jobs[i])]
    /\ Len(jobs) = 0 => r = PlaceholderPanel

\* the last search succeeded with zero postings and the placeholder is shown
C8_Witness ==
    /\ \E c \in Calls : calls[c].pc = "succeeded" /\ FetchedData(calls[c].log) = <<>>
    /\ \A c \in Calls : calls[c].pc = "succeeded" => FetchedData(calls[c].log) = <<>>
    /\ Render.results = PlaceholderPanel

Before(log, P(_), Q(_)) ==
    \A i \in 1..Len(log) : Q(log[i]) => \E j \in 1..(i - 1) : P(log[j])

\* C9: in every search, setSearching(true) and the informational notice come before
\* the POST is issued, the GET is issued only after the POST has succeeded, and a
\* search whose POST failed issues no GET.
C9_StepsInOrder ==
    \A c \in Calls :
        LET log == calls[c].log
            IsPost(e) == IsRequest(e) /\ e.arg = PostRequest
            IsGet(e) == IsRequest(e) /\ e.arg = GetRequest
            SetsSearching(e) == e.type = "setSearching" /\ e.arg = TRUE
            IsInfo(e) == IsToast(e) /\ e.arg = InfoToast
            PostOk(e) == IsResponse(e, "POST", TRUE)
            PostKo(e) == IsResponse(e, "POST", FALSE)
        IN /\ Before(log, SetsSearching, IsPost)
           /\ Before(log, IsInfo, IsPost)
           /\ Before(log, IsPost, PostOk)
           /\ Before(log, PostOk, IsGet)
           /\ (\E i \in 1..Len(log) : PostKo(log[i])) =>
                ~\E i \in 1..Len(log) : IsGet(log[i])
           /\ calls[c].pc = "awaitGet" => IsGet(log[Len(log)])

\* one search failed at its POST and another is waiting for its GET
C9_Witness ==
    /\ \E c \in Calls : calls[c].pc = "awaitGet"
    /\ \E c \in Calls :
        \E i \in 1..Len(calls[c].log) : IsResponse(calls[c].log[i], "POST", FALSE)

IsSuccessToast(e) ==
    /\ IsToast(e)
    /\ e.arg.kind = "success"
    /\ \E n \in 0..Cardinality(Postings) : e.arg.text = <<"Found ", n, " jobs!">>

\* C10: an invalid submit produces the validation notice and nothing else; a valid
\* submit produces the informational notice and, once resolved, exactly one more
\* notice, the success notice or the failure notice.
C10_NoticePattern ==
    \A c \in Calls :
        LET log == calls[c].log
            toasts == ToastsOf(log)
        IN CASE calls[c].pc = "rejected" ->
                    OnlyValidation(log)
             [] Pending(c) ->
                    toasts = <<Ev("toast", InfoToast)>>
             [] calls[c].pc = "succeeded" ->
                    /\ Len(toasts) = 2
                    /\ toasts[1] = Ev("toast", InfoToast)
                    /\ IsSuccessToast(toasts[2])
             [] calls[c].pc = "failed" ->
                    toasts = <<Ev("toast", InfoToast), Ev("toast", FailureToast)>>

\* all three patterns side by side: one rejected, one succeeded, one failed
C10_Witness ==
    /\ \E c \in Calls : calls[c].pc = "rejected"
    /\ \E c \in Calls : calls[c].pc = "succeeded"
    /\ \E c \in Calls : calls[c].pc = "failed"

====
